---------------------------- MODULE Spec2Model ----------------------------
(***************************************************************************)
(* triple_buffer<T> (src/triple-buffer/buffer.hh): one producer thread     *)
(* calling get_write_buffer / set_write_complete and one consumer thread   *)
(* calling get_read_buffer, interleaved at the granularity of the atomic   *)
(* operations on `available` and `next_read_buf`.  An assignment of the    *)
(* form  x = a.exchange(x)  with x private to the calling thread is one    *)
(* step: no other thread reads x.                                          *)
(*                                                                         *)
(* Slots are named by their index in buffer[3]; nullptr is -1.             *)
(* Besides the fields and the two program counters the module keeps        *)
(* observation variables (what the test suite observes through return      *)
(* values): they record history and never influence a step.                *)
(*                                                                         *)
(* lru_cache<Key, T> (src/lru-cache.cc) is a second, independent program   *)
(* in the same repository: it has its own variables, its own actions and   *)
(* its own specification LruSpec, further down.  So are make_substitutor  *)
(* (src/wchar-tr.cc, TrSpec), rolling_mean (src/rolling-mean.cpp, RmSpec)  *)
(* and the UTF-16 / UTF-8 output iterators of src/codecvt.cpp (CvtSpec).   *)
(* Every action leaves the variables of the other programs unchanged.      *)
(***************************************************************************)
EXTENDS Integers, Sequences, FiniteSets

\* Bounds of the exploration: calls of set_write_complete and of
\* get_read_buffer in one run.
MaxPublish == 4
MaxReads == 2

Buffers == {0, 1, 2}
nullptr == -1

\* The three kinds of timeout argument: {} (zero), a positive finite
\* duration, and the default milliseconds::max().
Timeouts == {"zero", "finite", "max"}

VARIABLES
    \* fields of triple_buffer
    readbuffer, writebuffer, available, next_read_buf,
    locked,        \* read_queue_mutex is held (by the consumer)
    woken,         \* read_queue: a notification reached the blocked consumer
    \* producer thread
    ppc,           \* "idle" | "store" | "notify"
    written,       \* local `written` of set_write_complete
    \* consumer thread
    cpc,           \* "idle" | "take" | "test" | "swap" | "lock" | "pred"
                   \* | "block" | "waiting" | "final"
    b,             \* local `b` of get_read_buffer
    tmo,           \* kind of the timeout argument
    expired,       \* steady_clock::now() >= timeout_time
    \* observations
    wret,          \* pointer the producer holds from get_write_buffer
    ret,           \* value of the last return of get_read_buffer
    held,          \* slot returned by the last get_read_buffer, until the
                   \* next call begins
    pubNo,         \* calls of set_write_complete begun
    pubDone,       \* calls of set_write_complete returned
    slotVer,       \* slot -> number of the publish that last released it
    pubW,          \* wret at the most recent set_write_complete
    nReads,        \* calls of get_read_buffer begun
    deliveries,    \* publish numbers of the slots returned, in order
    fresh,         \* a publish returned and no read returned a slot since
    quiet,         \* publishes returned in a row with no read call between
                   \* (0, 1, or 2 for "two or more")
    pstep,         \* the producer took a step since the current/last read
                   \* call began
    seq,           \* no two calls have overlapped so far
    r0, a0, w0, n0,\* the four registers when the current/last read began
    done0, fresh0, q0, dq0,  \* pubDone, fresh, quiet ... at that moment
    prevQ,         \* the last read call began after >= 2 quiet publishes,
                   \* ran without a producer step and returned a slot
    pubInTime,     \* a publish returned during the current/last read call
                   \* while its deadline had not passed
    swaps          \* exchanges of readbuffer with available made by the
                   \* current/last read call (0, 1, or 2 for "two or more")

regs == <<readbuffer, writebuffer, available, next_read_buf>>
prodLocal == <<ppc, written>>
consLocal == <<cpc, b, tmo, expired, locked>>
prodObs == <<wret, pubNo, pubDone, slotVer, pubW>>
consObs == <<ret, held, nReads, deliveries, r0, a0, w0, n0, done0, fresh0,
             q0, dq0, prevQ>>
bufVars == <<regs, prodLocal, consLocal, prodObs, consObs, woken, fresh,
             quiet, pstep, seq, pubInTime, swaps>>

VARIABLES
    \* fields of lru_cache
    capacity, items, map,
    undefined,     \* an operation on the cache had undefined behaviour
    \* observations
    constructed,   \* a constructor has run: the cache object exists
    run,           \* the sequence given to the last constructor or range
                   \* insert when its keys were distinct and it was longer
                   \* than the capacity, else <<>>
    moved,         \* the last operation was a touch that changed the order
    result,        \* what the last operation returned or did, when it was
                   \* a peek (<<"peek", node whose value is pointed to>>,
                   \* End for nullptr), a resize (<<"resize", entries
                   \* removed>>), a hinted insert (<<"hint", hint>>), a
                   \* peek on the copy (<<"copy_peek", node>>) or a copy
                   \* assignment (<<"assigned">>); <<>> after any other
                   \* operation
    \* a second lru_cache object, made as a copy of the first
    copied,        \* the copy exists
    copyCapacity, copyItems, copyMap,   \* its fields
    copyKeyRefs,   \* key in copyMap -> the node whose key the map's
                   \* reference_wrapper designates: a node of the first
                   \* cache, OwnKey for a node of the copy itself,
                   \* FreedKey once that node was destroyed
    copyUndefined  \* a lookup in the copy read a destroyed key

copyVars == <<copied, copyCapacity, copyItems, copyMap, copyKeyRefs,
              copyUndefined>>

lruVars == <<capacity, items, map, undefined, constructed, run, moved,
             result, copyVars>>

VARIABLES
    \* make_substitutor (src/wchar-tr.cc)
    from, to,      \* the arguments of the last call of make_substitutor
    thrown,        \* "no call" | "none" | "invalid_argument": how it ended
    substitutor,   \* the map captured by the function object it returned
    substituted    \* the last character that function object returned
                   \* (NoChar: not called since make_substitutor)

trVars == <<from, to, thrown, substitutor, substituted>>

VARIABLES
    \* rolling_mean<double> (src/rolling-mean.cpp)
    content,         \* std::deque<V> content, front first
    threshold,       \* std::size_t threshold
    mean,            \* T mean
    valid_count,     \* std::size_t valid_count
    rmThrown,        \* "no object" | "none" | "invalid_argument": how the
                     \* constructor ended
    pushed,          \* every value handed to push_back, oldest first
    returned         \* [called, value]: whether value() was called since
                     \* the last change, and what it returned

rmVars == <<content, threshold, mean, valid_count, rmThrown, pushed, returned>>

VARIABLES
    \* codecvt::to_utf16_iterator / to_utf8_iterator (src/codecvt.cpp)
    encoding,      \* "none" | "utf16" | "utf8": the class of the iterators
    text,          \* the char32_t string the iterators run over
    iter,          \* the two iterators: [pos, length, remaining, current],
                   \* pos an index into text, Len(text) + 1 for its end
    unit,          \* for each iterator, the output code unit it designates
                   \* by the operations applied to it: the number of code
                   \* units of the whole output that precede it
    cvtUndefined   \* an operation read or moved outside the text

cvtVars == <<encoding, text, iter, unit, cvtUndefined>>

\* For each program, the variables of the other programs.
outsideBuf == <<lruVars, trVars, rmVars, cvtVars>>
outsideLru == <<bufVars, trVars, rmVars, cvtVars>>
outsideTr == <<bufVars, lruVars, rmVars, cvtVars>>
outsideRm == <<bufVars, lruVars, trVars, cvtVars>>
outsideCvt == <<bufVars, lruVars, trVars, rmVars>>

vars == <<bufVars, lruVars, trVars, rmVars, cvtVars>>

TypeOK ==
    /\ readbuffer \in Buffers /\ writebuffer \in Buffers
    /\ available \in Buffers
    /\ next_read_buf \in Buffers \cup {nullptr}
    /\ locked \in BOOLEAN /\ woken \in BOOLEAN
    /\ ppc \in {"idle", "store", "notify"}
    /\ written \in Buffers \cup {nullptr}
    /\ cpc \in {"idle", "take", "test", "swap", "lock", "pred", "block",
                "waiting", "final"}
    /\ b \in Buffers \cup {nullptr}
    /\ tmo \in Timeouts /\ expired \in BOOLEAN

Init ==
    /\ readbuffer = 0 /\ writebuffer = 1 /\ available = 2
    /\ next_read_buf = nullptr
    /\ locked = FALSE /\ woken = FALSE
    /\ ppc = "idle" /\ written = nullptr
    /\ cpc = "idle" /\ b = nullptr /\ tmo = "zero" /\ expired = FALSE
    /\ wret = nullptr /\ ret = nullptr /\ held = nullptr
    /\ pubNo = 0 /\ pubDone = 0 /\ slotVer = [s \in Buffers |-> 0]
    /\ pubW = nullptr /\ nReads = 0 /\ deliveries = <<>>
    /\ fresh = FALSE /\ quiet = 0 /\ pstep = FALSE /\ seq = TRUE
    /\ r0 = 0 /\ a0 = 2 /\ w0 = 1 /\ n0 = nullptr
    /\ done0 = 0 /\ fresh0 = FALSE /\ q0 = 0 /\ dq0 = FALSE
    /\ prevQ = FALSE
    /\ pubInTime = FALSE /\ swaps = 0
    /\ capacity = 0 /\ items = <<>> /\ map = <<>> /\ undefined = FALSE
    /\ constructed = FALSE /\ run = <<>> /\ moved = FALSE
    /\ result = <<>>
    /\ copied = FALSE /\ copyCapacity = 0 /\ copyItems = <<>>
    /\ copyMap = <<>> /\ copyKeyRefs = <<>> /\ copyUndefined = FALSE
    /\ from = <<>> /\ to = <<>> /\ thrown = "no call"
    /\ substitutor = <<>> /\ substituted = ""
    /\ content = <<>> /\ threshold = 0 /\ mean = [fp |-> "finite", num |-> 0, den |-> 1]
    /\ valid_count = 0 /\ rmThrown = "no object" /\ pushed = <<>>
    /\ returned = [called |-> FALSE, value |-> <<>>]
    /\ encoding = "none" /\ text = <<>> /\ iter = <<>> /\ unit = <<>>
    /\ cvtUndefined = FALSE

-----------------------------------------------------------------------------
\* Producer

\* A producer step: it overlaps a read call iff the consumer is inside one.
ProducerStep ==
    /\ pstep' = TRUE
    /\ seq' = (seq /\ cpc = "idle")

\* Faulty variant: a get_write_buffer that fetches a new slot from
\* available on every call.
GetWriteBufferExchanging ==
    /\ ppc = "idle"
    /\ available' = writebuffer
    /\ writebuffer' = available
    /\ wret' = available
    /\ ProducerStep
    /\ UNCHANGED outsideBuf
    /\ UNCHANGED <<readbuffer, next_read_buf, prodLocal, consLocal, consObs,
                   woken, fresh, quiet, pubNo, pubDone, slotVer, pubW,
                   pubInTime, swaps>>

\* T *get_write_buffer() { return writebuffer; }
get_write_buffer ==
    /\ ppc = "idle"
    /\ wret' = writebuffer
    /\ ProducerStep
    /\ UNCHANGED outsideBuf
    /\ UNCHANGED <<regs, prodLocal, consLocal, consObs, woken, fresh, quiet,
                   pubNo, pubDone, slotVer, pubW,
                   pubInTime, swaps>>

\* Faulty variants of the exchange: one that stores nothing, one that
\* returns the caller's own pointer.
ExchangeStoredNothing(mine, shared) == shared
ExchangeTakenOwn(mine, shared) == mine

\* x = available.exchange(x): the value stored into available, and the value
\* returned and assigned to the caller's own register.
ExchangeStored(mine, shared) == mine
ExchangeTaken(mine, shared) == shared

\* auto *written = writebuffer;
\* writebuffer = available.exchange(writebuffer);
PubExchange ==
    /\ ppc = "idle"
    /\ pubNo < MaxPublish
    /\ written' = writebuffer
    /\ available' = ExchangeStored(writebuffer, available)
    /\ writebuffer' = ExchangeTaken(writebuffer, available)
    /\ ppc' = "store"
    /\ pubNo' = pubNo + 1
    /\ slotVer' = [slotVer EXCEPT ![writebuffer] = pubNo + 1]
    /\ pubW' = wret
    /\ wret' = nullptr
    /\ ProducerStep
    /\ UNCHANGED outsideBuf
    /\ UNCHANGED <<readbuffer, next_read_buf, consLocal, consObs, woken,
                   fresh, quiet, pubDone,
                   pubInTime, swaps>>

\* Faulty variant: announces the slot just received for writing.
MarkedSlotNew(w, wb) == wb

\* The pointer set_write_complete stores into next_read_buf.
MarkedSlot(w, wb) == w

\* Faulty variant: a set_write_complete that takes read_queue_mutex before
\* it stores the marker.
PubStoreUnderMutex ==
    /\ ppc = "store"
    /\ ~locked
    /\ next_read_buf' = written
    /\ ppc' = "notify"
    /\ ProducerStep
    /\ UNCHANGED outsideBuf
    /\ UNCHANGED <<readbuffer, writebuffer, available, written, consLocal,
                   prodObs, consObs, woken, fresh, quiet, pubInTime, swaps>>

\* next_read_buf.store(written, std::memory_order_release);
PubStore ==
    /\ ppc = "store"
    /\ next_read_buf' = MarkedSlot(written, writebuffer)
    /\ ppc' = "notify"
    /\ ProducerStep
    /\ UNCHANGED outsideBuf
    /\ UNCHANGED <<readbuffer, writebuffer, available, written, consLocal,
                   prodObs, consObs, woken, fresh, quiet,
                   pubInTime, swaps>>

\* read_queue.notify_one(): wakes the consumer iff it is blocked in
\* wait_until at this instant; then set_write_complete returns.
PubNotify ==
    /\ ppc = "notify"
    /\ woken' = (woken \/ cpc = "waiting")
    /\ ppc' = "idle"
    /\ pubDone' = pubDone + 1
    /\ fresh' = TRUE
    /\ quiet' = IF cpc = "idle" THEN (IF quiet = 0 THEN 1 ELSE 2) ELSE 0
    /\ pubInTime' = (pubInTime \/ (cpc # "idle" /\ ~expired))
    /\ ProducerStep
    /\ UNCHANGED outsideBuf
    /\ UNCHANGED <<regs, written, consLocal, consObs, wret, pubNo, slotVer,
                   pubW,
                   swaps>>

-----------------------------------------------------------------------------
\* Consumer

ConsumerStep == seq' = (seq /\ ppc = "idle")

\* get_read_buffer returns v (a slot, or nullptr for "no data").
Return(v) ==
    /\ cpc' = "idle"
    /\ locked' = FALSE
    /\ ret' = v
    /\ held' = v
    /\ deliveries' = IF v = nullptr THEN deliveries
                     ELSE Append(deliveries, slotVer[v])
    /\ fresh' = IF v = nullptr THEN fresh ELSE FALSE
    /\ prevQ' = (q0 = 2 /\ ~pstep /\ v # nullptr)

\* Arithmetic of  steady_clock::now() + timeout.  The clock counts
\* nanoseconds in a signed 64-bit integer, so the milliseconds argument is
\* first converted by multiplying its count by 1000000 in that type.
\* 64-bit values are written as little-endian sequences of 10-bit limbs.
NanosPerMilli == 1000000
LimbBase == 2^10

\* std::chrono::milliseconds::max().count() = 2^63 - 1.
MilliMax == <<1023, 1023, 1023, 1023, 1023, 1023, 7>>

\* The count of the timeout argument, in milliseconds.
TimeoutMillis(t) ==
    CASE t = "zero" -> <<0>>
      [] t = "finite" -> <<1>>
      [] t = "max" -> MilliMax

RECURSIVE Limbs(_)
Limbs(n) == IF n = 0 THEN <<>> ELSE <<n % LimbBase>> \o Limbs(n \div LimbBase)

\* x * k, exactly (limb by limb with carry).
RECURSIVE MulFrom(_, _, _, _)
MulFrom(x, k, i, carry) ==
    IF i > Len(x) THEN Limbs(carry)
    ELSE LET t == x[i] * k + carry
         IN  <<t % LimbBase>> \o MulFrom(x, k, i + 1, t \div LimbBase)

\* The value is at most 2^63 - 1.
FitsInt64(x) ==
    \A i \in DOMAIN x : /\ (i > 7 => x[i] = 0)
                        /\ (i = 7 => x[i] < 8)

\* The conversion of the timeout to nanoseconds overflows int64.
DeadlineOverflows(t) ==
    ~FitsInt64(MulFrom(TimeoutMillis(t), NanosPerMilli, 1, 0))

\* auto const timeout_time = std::chrono::steady_clock::now() + timeout;
\* A zero timeout gives a deadline that has passed as soon as the clock is
\* read again; a positive one has not passed yet.  With the default
\* milliseconds::max() the conversion overflows: signed overflow is
\* undefined, so the deadline may lie anywhere, before now() included.
DeadlinePassed(t) ==
    IF DeadlineOverflows(t) THEN {TRUE, FALSE}
    ELSE IF t = "zero" THEN {TRUE} ELSE {FALSE}

\* The clock can reach the deadline during the call: not when it is the
\* clock's largest value.
DeadlineReachable(t) ==
    DeadlineOverflows(t) \/ TimeoutMillis(t) # MilliMax

ReadCall(t) ==
    /\ cpc = "idle"
    /\ nReads < MaxReads
    /\ nReads' = nReads + 1
    /\ tmo' = t
    /\ expired' \in DeadlinePassed(t)
    /\ cpc' = "take"
    /\ held' = nullptr
    /\ r0' = readbuffer /\ a0' = available /\ w0' = writebuffer
    /\ n0' = next_read_buf
    /\ done0' = pubDone /\ fresh0' = fresh /\ q0' = quiet
    /\ dq0' = (prevQ /\ ~pstep)
    /\ quiet' = 0
    /\ pstep' = FALSE
    /\ pubInTime' = FALSE
    /\ swaps' = 0
    /\ ConsumerStep
    /\ UNCHANGED outsideBuf
    /\ UNCHANGED <<regs, prodLocal, prodObs, b, locked, woken, ret,
                   deliveries, fresh, prevQ>>

\* The clock passes timeout_time while the call is in progress.
Tick ==
    /\ cpc # "idle"
    /\ DeadlineReachable(tmo)
    /\ ~expired
    /\ expired' = TRUE
    /\ UNCHANGED outsideBuf
    /\ UNCHANGED <<regs, prodLocal, prodObs, consObs, cpc, b, tmo, locked,
                   woken, fresh, quiet, pstep, seq,
                   pubInTime, swaps>>

\* Faulty variant: a load in place of the exchange.
MarkerKept(n) == n

\* auto *b = next_read_buf.exchange(nullptr);
\* The value left in next_read_buf by the exchange.
MarkerAfterTake(n) == nullptr

ReadTake ==
    /\ cpc = "take"
    /\ b' = next_read_buf
    /\ next_read_buf' = MarkerAfterTake(next_read_buf)
    /\ cpc' = "test"
    /\ ConsumerStep
    /\ UNCHANGED outsideBuf
    /\ UNCHANGED <<readbuffer, writebuffer, available, prodLocal, prodObs,
                   consObs, tmo, expired, locked, woken, fresh, quiet, pstep,
                   pubInTime, swaps>>

\* while (b != readbuffer) ... return readbuffer;
ReadTest ==
    /\ cpc = "test"
    /\ IF b # readbuffer
         THEN /\ cpc' = "swap"
              /\ UNCHANGED <<consObs, locked, fresh>>
         ELSE /\ Return(readbuffer)
              /\ UNCHANGED <<nReads, r0, a0, w0, n0, done0, fresh0, q0, dq0>>
    /\ ConsumerStep
    /\ UNCHANGED outsideBuf
    /\ UNCHANGED <<regs, prodLocal, prodObs, b, tmo, expired, woken, quiet,
                   pstep,
                   pubInTime, swaps>>

\* Faulty variants: accept whatever the exchange gave; accept it whenever a
\* marker was taken.
IsWrittenAlways(taken, rb) == TRUE
IsWrittenAnyMarker(taken, rb) == taken # nullptr

\* if (b == readbuffer) return readbuffer;   (after the exchange)
IsWritten(taken, rb) == taken = rb

\* readbuffer = available.exchange(readbuffer);
\* if (b == readbuffer) { return readbuffer; }
\* b = nullptr;
ReadSwap ==
    /\ cpc = "swap"
    /\ available' = ExchangeStored(readbuffer, available)
    /\ readbuffer' = ExchangeTaken(readbuffer, available)
    /\ IF IsWritten(b, readbuffer')
         THEN /\ Return(readbuffer')
              /\ UNCHANGED <<b, nReads, r0, a0, w0, n0, done0, fresh0, q0,
                             dq0>>
         ELSE /\ b' = nullptr
              /\ cpc' = "lock"
              /\ UNCHANGED <<consObs, locked, fresh>>
    /\ swaps' = (IF swaps = 0 THEN 1 ELSE 2)
    /\ ConsumerStep
    /\ UNCHANGED outsideBuf
    /\ UNCHANGED <<writebuffer, next_read_buf, prodLocal, prodObs, tmo,
                   expired, woken, quiet, pstep,
                   pubInTime>>

\* std::unique_lock lock{read_queue_mutex};
\* Only the consumer ever locks the mutex, so it is free here.
ReadLock ==
    /\ cpc = "lock"
    /\ ~locked
    /\ locked' = TRUE
    /\ cpc' = "pred"
    /\ ConsumerStep
    /\ UNCHANGED outsideBuf
    /\ UNCHANGED <<regs, prodLocal, prodObs, consObs, b, tmo, expired, woken,
                   fresh, quiet, pstep,
                   pubInTime, swaps>>

\* wait_until(lock, timeout_time, test) is
\*     while (!test()) if (wait_until(lock, t) == timeout) return test();
\*     return true;
\* with test = [this,&b]{ b = next_read_buf.exchange(nullptr); return b; }
\* ReadPred is one evaluation of test() in the loop condition: a non-null
\* b ends the wait (the lock is released at the end of the loop body).
ReadPred ==
    /\ cpc = "pred"
    /\ b' = next_read_buf
    /\ next_read_buf' = MarkerAfterTake(next_read_buf)
    /\ IF b' # nullptr
         THEN cpc' = "test" /\ locked' = FALSE
         ELSE cpc' = "block" /\ locked' = locked
    /\ ConsumerStep
    /\ UNCHANGED outsideBuf
    /\ UNCHANGED <<readbuffer, writebuffer, available, prodLocal, prodObs,
                   consObs, tmo, expired, woken, fresh, quiet, pstep,
                   pubInTime, swaps>>

\* Faulty variant: a wait that blocks without looking at the deadline.
ReadBlockAlways ==
    /\ cpc = "block"
    /\ cpc' = "waiting" /\ locked' = FALSE /\ woken' = FALSE
    /\ ConsumerStep
    /\ UNCHANGED outsideBuf
    /\ UNCHANGED <<regs, prodLocal, prodObs, consObs, b, tmo, expired, fresh,
                   quiet, pstep, pubInTime, swaps>>

\* wait_until(lock, timeout_time): with the deadline already passed it
\* reports a timeout at once; otherwise the consumer releases the mutex and
\* blocks on read_queue.
ReadBlock ==
    /\ cpc = "block"
    /\ IF expired
         THEN cpc' = "final" /\ UNCHANGED <<locked, woken>>
         ELSE cpc' = "waiting" /\ locked' = FALSE /\ woken' = FALSE
    /\ ConsumerStep
    /\ UNCHANGED outsideBuf
    /\ UNCHANGED <<regs, prodLocal, prodObs, consObs, b, tmo, expired, fresh,
                   quiet, pstep,
                   pubInTime, swaps>>

\* The blocked consumer is woken by notify_one and retakes the mutex.
ReadWake ==
    /\ cpc = "waiting"
    /\ woken
    /\ woken' = FALSE
    /\ locked' = TRUE
    /\ cpc' = "pred"
    /\ ConsumerStep
    /\ UNCHANGED outsideBuf
    /\ UNCHANGED <<regs, prodLocal, prodObs, consObs, b, tmo, expired, fresh,
                   quiet, pstep,
                   pubInTime, swaps>>

\* Faulty variant: a wake-up without a notification that claims the
\* available slot without looking at the marker.
ReadSpuriousClaiming ==
    /\ cpc = "waiting"
    /\ ~woken
    /\ ~expired
    /\ available' = readbuffer
    /\ readbuffer' = available
    /\ locked' = TRUE
    /\ cpc' = "pred"
    /\ ConsumerStep
    /\ UNCHANGED outsideBuf
    /\ UNCHANGED <<writebuffer, next_read_buf, prodLocal, prodObs, consObs,
                   b, tmo, expired, woken, fresh, quiet, pstep, pubInTime,
                   swaps>>

\* A condition variable may wake without a notification.
ReadSpurious ==
    /\ cpc = "waiting"
    /\ ~woken
    /\ ~expired
    /\ locked' = TRUE
    /\ cpc' = "pred"
    /\ ConsumerStep
    /\ UNCHANGED outsideBuf
    /\ UNCHANGED <<regs, prodLocal, prodObs, consObs, b, tmo, expired, woken,
                   fresh, quiet, pstep,
                   pubInTime, swaps>>

\* The deadline passes while the consumer is blocked.
ReadTimeout ==
    /\ cpc = "waiting"
    /\ expired
    /\ woken' = FALSE
    /\ locked' = TRUE
    /\ cpc' = "final"
    /\ ConsumerStep
    /\ UNCHANGED outsideBuf
    /\ UNCHANGED <<regs, prodLocal, prodObs, consObs, b, tmo, expired, fresh,
                   quiet, pstep,
                   pubInTime, swaps>>

\* return test();  after a timeout, then
\* if (!read_queue.wait_until(...)) { return nullptr; }
ReadFinal ==
    /\ cpc = "final"
    /\ b' = next_read_buf
    /\ next_read_buf' = MarkerAfterTake(next_read_buf)
    /\ IF b' # nullptr
         THEN /\ cpc' = "test" /\ locked' = FALSE
              /\ UNCHANGED <<consObs, fresh>>
         ELSE /\ Return(nullptr)
              /\ UNCHANGED <<nReads, r0, a0, w0, n0, done0, fresh0, q0, dq0>>
    /\ ConsumerStep
    /\ UNCHANGED outsideBuf
    /\ UNCHANGED <<readbuffer, writebuffer, available, prodLocal, prodObs,
                   tmo, expired, woken, quiet, pstep,
                   pubInTime, swaps>>

-----------------------------------------------------------------------------
\* test_invariant(file, line): TRUE when it reports no failure.
\* fail = buffers != roles
\*        || next_read_buf && !buffers.count(next_read_buf)
\*        || next_read_buf == writebuffer
test_invariant ==
    LET roles == {readbuffer, available, writebuffer}
        fail == \/ Buffers # roles
                \/ (next_read_buf # nullptr /\ next_read_buf \notin Buffers)
                \/ next_read_buf = writebuffer
    IN ~fail

-----------------------------------------------------------------------------
Next ==
    \/ get_write_buffer
    \/ PubExchange
    \/ PubStore
    \/ PubNotify
    \/ \E t \in Timeouts : ReadCall(t)
    \/ Tick
    \/ ReadTake
    \/ ReadTest
    \/ ReadSwap
    \/ ReadLock
    \/ ReadPred
    \/ ReadBlock
    \/ ReadWake
    \/ ReadSpurious
    \/ ReadTimeout
    \/ ReadFinal

Spec == Init /\ [][Next]_vars

\* The steps of the consumer thread's program (a spurious wake-up is not
\* one: nothing guarantees it).
ConsumerNext ==
    \/ \E t \in Timeouts : ReadCall(t)
    \/ ReadTake \/ ReadTest \/ ReadSwap \/ ReadLock \/ ReadPred
    \/ ReadBlock \/ ReadWake \/ ReadTimeout \/ ReadFinal

\* The same program where the consumer thread keeps being scheduled and
\* keeps calling get_read_buffer, and the clock keeps running.  Nothing is
\* assumed of the producer: it may stop at any point.
\* The runs are those in which the producer stops after LivePublishes calls
\* of set_write_complete at the latest.
LivePublishes == 2

LiveNext ==
    \/ get_write_buffer
    \/ (pubNo < LivePublishes /\ PubExchange)
    \/ PubStore
    \/ PubNotify
    \/ \E t \in Timeouts : ReadCall(t)
    \/ Tick
    \/ ReadTake
    \/ ReadTest
    \/ ReadSwap
    \/ ReadLock
    \/ ReadPred
    \/ ReadBlock
    \/ ReadWake
    \/ ReadSpurious
    \/ ReadTimeout
    \/ ReadFinal

LiveSpec ==
    Init /\ [][LiveNext]_vars /\ WF_vars(ConsumerNext) /\ WF_vars(Tick)

-----------------------------------------------------------------------------
\* lru_cache<Key, T> (src/lru-cache.cc)
\*
\* A node of the std::list `items` is a record [node, first, second]:
\* `node` names the list node (what a list iterator designates; iterators
\* stay valid while other nodes come and go), first/second are the members
\* of the stored std::pair.  `map` is a function from the keys it holds to
\* the node its iterator designates.  Node names stand for addresses: a
\* new node holding key k is named k, or k + MaxKey, k + 2 * MaxKey, ...
\* while nodes of the same key are in the list.

\* Bounds: keys are 1..MaxKey, capacities 0..MaxCapacity, and the sequences
\* handed to constructors and to the range insert have at most MaxLen
\* elements.
MaxKey == 3
MaxCapacity == 2
MaxLen == 3

Keys == 1..MaxKey
Capacities == 0..MaxCapacity

\* The value stored with key k is ten times the key, as in the tests:
\* {4, 40}, {6, 60}, {8, 80}.
TestValue(k) == 10 * k

\* The contents handed to constructors and to insert(first, last):
\* sequences of keys, repeated keys included, each paired with its
\* TestValue.
RECURSIVE KeySeqs(_)
KeySeqs(n) ==
    IF n = 0 THEN {<<>>}
    ELSE LET shorter == KeySeqs(n - 1)
         IN shorter \cup {Append(s, k) : s \in shorter, k \in Keys}
Contents == {[i \in DOMAIN s |-> <<s[i], TestValue(s[i])>>] :
             s \in KeySeqs(MaxLen)}

\* items.end()
End == 0

\* What a key reference in the copy's map can designate besides a node of
\* the first cache.
OwnKey == 0
FreedKey == -1

EmptyMap == [k \in {} |-> End]
MapErase(m, k) == [x \in DOMAIN m \ {k} |-> m[x]]
\* map.emplace(key, it): no effect when the key is already there
MapEmplace(m, k, n) ==
    IF k \in DOMAIN m THEN m
    ELSE [x \in DOMAIN m \cup {k} |-> IF x = k THEN n ELSE m[x]]

NodeNames(its) == {its[i].node : i \in DOMAIN its}
FreshNode(its, k) ==
    LET name(m) == k + m * MaxKey
    IN name(CHOOSE m \in 0..Len(its) :
                /\ name(m) \notin NodeNames(its)
                /\ \A j \in 0..(m - 1) : name(j) \in NodeNames(its))
IndexOf(its, n) == CHOOSE i \in DOMAIN its : its[i].node = n
Drop(s, n) == SubSeq(s, n + 1, Len(s))
LastN(s, n) == IF Len(s) > n THEN Drop(s, Len(s) - n) ELSE s
\* what iterating the cache shows: the (key, value) pairs in list order
Entries(its) == [i \in DOMAIN its |-> <<its[i].first, its[i].second>>]
KeysOf(its) == {its[i].first : i \in DOMAIN its}

\* items.emplace(it, value): the new node goes before `it`
ListEmplace(its, it, nd) ==
    IF it = End THEN Append(its, nd)
    ELSE LET i == IndexOf(its, it)
         IN SubSeq(its, 1, i - 1) \o <<nd>> \o SubSeq(its, i, Len(its))

\* items.splice(items.end(), items, it)
SpliceToEnd(its, it) ==
    LET i == IndexOf(its, it)
    IN SubSeq(its, 1, i - 1) \o SubSeq(its, i + 1, Len(its)) \o <<its[i]>>

\* The value of a cache object: [capacity, items, map], and ub: the
\* operation computing it ran into undefined behaviour (the other fields
\* are then those at that point).
\* explicit lru_cache(size_type capacity)
lru_cache(cap) ==
    [capacity |-> cap, items |-> <<>>, map |-> EmptyMap, ub |-> FALSE]

\* for (it = items.begin(); it != items.end(); ++it) map[it->first] = it;
build_map(c) ==
    [c EXCEPT !.map =
        [k \in DOMAIN c.map \cup KeysOf(c.items) |->
            IF k \in KeysOf(c.items)
            THEN LET last == CHOOSE i \in DOMAIN c.items :
                                /\ c.items[i].first = k
                                /\ \A j \in DOMAIN c.items :
                                      c.items[j].first = k => j <= i
                 IN c.items[last].node
            ELSE c.map[k]]]

\* internal_insert(it, value).  With size() >= capacity it reads
\* items.front() and calls items.pop_front() whether or not the list has
\* an element: on an empty list (capacity 0) both are undefined.  After
\* the trim, an `it` that designated the node just erased is invalid.
internal_insert(c, it, value) ==
    IF value[1] \in DOMAIN c.map THEN c
    ELSE IF Len(c.items) >= c.capacity /\ c.items = <<>>
         THEN [c EXCEPT !.ub = TRUE]
    ELSE LET trimmed ==
                 IF Len(c.items) >= c.capacity
                 THEN [c EXCEPT !.map = MapErase(@, Head(c.items).first),
                                !.items = Tail(@)]
                 ELSE c
         IN IF it # End /\ it \notin NodeNames(trimmed.items)
            THEN [trimmed EXCEPT !.ub = TRUE]
            ELSE LET nd == [node |-> FreshNode(trimmed.items, value[1]),
                            first |-> value[1], second |-> value[2]]
                 IN [trimmed EXCEPT
                        !.items = ListEmplace(@, it, nd),
                        !.map = MapEmplace(@, nd.first, nd.node)]

\* while (first != last) insert(*first++);
RECURSIVE InsertEach(_, _)
InsertEach(c, s) ==
    IF s = <<>> \/ c.ub THEN c
    ELSE InsertEach(internal_insert(c, End, Head(s)), Tail(s))

\* erase(begin(), std::next(begin(), n))
EraseFirst(c, n) ==
    [c EXCEPT !.map = [x \in DOMAIN @ \ KeysOf(SubSeq(c.items, 1, n))
                         |-> @[x]],
              !.items = Drop(@, n)]

\* insert(InputIt first, Sentinel last).  `sized`: the iterators are
\* bidirectional and last - first is defined (array, initializer_list,
\* vector); otherwise (std::list iterators, input iterators) only the loop
\* runs.
insert(c, s, sized) ==
    IF sized
    THEN LET s1 == IF Len(s) > c.capacity
                   THEN Drop(s, Len(s) - c.capacity) ELSE s
             c1 == IF Len(s1) + Len(c.items) > c.capacity
                   THEN EraseFirst(c, Len(c.items) + Len(s1) - c.capacity)
                   ELSE c
         IN InsertEach(c1, s1)
    ELSE InsertEach(c, s)

\* A std::list holding the pairs of s.
RECURSIVE ListOf(_)
ListOf(s) ==
    IF s = <<>> THEN <<>>
    ELSE LET front == ListOf(SubSeq(s, 1, Len(s) - 1))
             value == s[Len(s)]
         IN Append(front, [node |-> FreshNode(front, value[1]),
                           first |-> value[1], second |-> value[2]])

\* lru_cache(list_type&& list, size_type capacity): the nodes of `list`
\* themselves move into items.
lru_cache_list(s, cap) ==
    LET spliced == [lru_cache(cap) EXCEPT !.items = ListOf(s)]
        erased == IF Len(spliced.items) > cap
                  THEN [spliced EXCEPT !.items = LastN(@, cap)]
                  ELSE spliced
    IN build_map(erased)

\* lru_cache(InputIt first, Sentinel last, size_type capacity), which the
\* from_range and initializer_list constructors delegate to.
lru_cache_iterators(s, cap, sized) == insert(lru_cache(cap), s, sized)

\* Faulty variant: touch moving the entry to the least recently used end.
TouchToFront(c, key) ==
    IF key \notin DOMAIN c.map THEN c
    ELSE LET i == IndexOf(c.items, c.map[key])
         IN [c EXCEPT !.items = <<@[i]>> \o SubSeq(@, 1, i - 1)
                                 \o SubSeq(@, i + 1, Len(@))]

\* touch(key_type const& key)
touch(c, key) ==
    IF key \notin DOMAIN c.map THEN c
    ELSE [c EXCEPT !.items = SpliceToEnd(@, c.map[key])]

\* The cache object of the run, as a value.
Cache == [capacity |-> capacity, items |-> items, map |-> map, ub |-> FALSE]

\* contains(key_type const& k)
contains(k) == k \in DOMAIN map

\* A sequence of distinct keys longer than the capacity.
DistinctLonger(s, cap) ==
    /\ Len(s) > cap
    /\ \A i, j \in DOMAIN s : s[i][1] = s[j][1] => i = j

\* What the list can hold after pop_front() ran on an empty list.
UndefinedItems ==
    {<<>>} \cup {<<[node |-> k, first |-> k, second |-> TestValue(x)]>> :
                   k \in Keys, x \in Keys}

\* The cache takes the value r that an operation computed; where the
\* operation was undefined, anything.
\* A copy made earlier keeps in its map references to the keys inside
\* nodes of this cache (copyKeyRefs).  The nodes the operation destroyed
\* are gone from under those references; nothing else of the copy changes.
Becomes(r) ==
    /\ capacity' = r.capacity
    /\ undefined' = r.ub
    /\ IF r.ub
       THEN \E its \in UndefinedItems :
               /\ items' = its
               /\ map' \in {EmptyMap, build_map([r EXCEPT !.items = its]).map}
       ELSE items' = r.items /\ map' = r.map
    /\ copyKeyRefs' =
          [x \in DOMAIN copyKeyRefs |->
              IF copyKeyRefs[x] \in NodeNames(items) \ NodeNames(items')
              THEN FreedKey ELSE copyKeyRefs[x]]
    /\ UNCHANGED <<copied, copyCapacity, copyItems, copyMap, copyUndefined>>

\* The cache exists and no operation on it was undefined.
Alive == constructed /\ ~undefined

ConstructCapacity(cap) ==
    /\ ~constructed
    /\ Becomes(lru_cache(cap))
    /\ result' = <<>>
    /\ constructed' = TRUE /\ run' = <<>> /\ moved' = FALSE
    /\ UNCHANGED outsideLru

ConstructList(s, cap) ==
    /\ ~constructed
    /\ Becomes(lru_cache_list(s, cap))
    /\ result' = <<>>
    /\ constructed' = TRUE
    /\ run' = (IF DistinctLonger(s, cap) THEN s ELSE <<>>)
    /\ moved' = FALSE
    /\ UNCHANGED outsideLru

ConstructIterators(s, cap, sized) ==
    /\ ~constructed
    /\ Becomes(lru_cache_iterators(s, cap, sized))
    /\ result' = <<>>
    /\ constructed' = TRUE
    /\ run' = (IF DistinctLonger(s, cap) THEN s ELSE <<>>)
    /\ moved' = FALSE
    /\ UNCHANGED outsideLru

\* insert(value_type const& value)
Insert(k) ==
    /\ Alive
    /\ Becomes(internal_insert(Cache, End, <<k, TestValue(k)>>))
    /\ result' = <<>>
    /\ run' = <<>> /\ moved' = FALSE
    /\ UNCHANGED constructed
    /\ UNCHANGED outsideLru

\* insert(first, last), insert(initializer_list), insert_range(range)
InsertRange(s, sized) ==
    /\ Alive
    /\ Becomes(insert(Cache, s, sized))
    /\ result' = <<>>
    /\ UNCHANGED constructed
    /\ run' = (IF DistinctLonger(s, capacity) THEN s ELSE <<>>)
    /\ moved' = FALSE
    /\ UNCHANGED outsideLru

Touch(k) ==
    /\ Alive
    /\ Becomes(touch(Cache, k))
    /\ result' = <<>>
    /\ run' = <<>>
    /\ UNCHANGED constructed
    /\ moved' = (touch(Cache, k).items # items)
    /\ UNCHANGED outsideLru

\* Faulty variant: a peek that promotes the entry, as at() does.
PeekPromoting(c, k) ==
    IF k \notin DOMAIN c.map THEN c
    ELSE [c EXCEPT !.items = SpliceToEnd(@, c.map[k])]

\* peek(key_type const& k): the cache after the call
peek(c, k) == c

\* ... and the node whose `second` the returned pointer designates
\* (&it->second->second), End standing for nullptr.
peek_result(c, k) == IF k \in DOMAIN c.map THEN c.map[k] ELSE End

Peek(k) ==
    /\ Alive
    /\ Becomes(peek(Cache, k))
    /\ result' = <<"peek", peek_result(Cache, k)>>
    /\ run' = <<>> /\ moved' = FALSE
    /\ UNCHANGED constructed
    /\ UNCHANGED outsideLru

\* while (items.size() > capacity) { map.erase(items.front().first);
\*                                   items.pop_front(); }
RECURSIVE TrimToCapacity(_)
TrimToCapacity(c) ==
    IF Len(c.items) <= c.capacity THEN c
    ELSE TrimToCapacity([c EXCEPT !.map = MapErase(@, Head(c.items).first),
                                  !.items = Tail(@)])

\* Faulty variant: a resize that evicts from the most recently used end.
ResizeDroppingNewest(c, new_capacity) ==
    LET kept == [i \in 1..(IF Len(c.items) > new_capacity
                           THEN new_capacity ELSE Len(c.items))
                   |-> c.items[i]]
    IN [c EXCEPT !.capacity = new_capacity,
                 !.items = kept,
                 !.map = [x \in DOMAIN @ \cap KeysOf(kept) |-> @[x]]]

\* resize(size_type new_capacity)
resize(c, new_capacity) ==
    TrimToCapacity([c EXCEPT !.capacity = new_capacity])

Resize(n) ==
    /\ Alive
    /\ Becomes(resize(Cache, n))
    /\ result' = <<"resize", Len(items) - Len(resize(Cache, n).items)>>
    /\ run' = <<>> /\ moved' = FALSE
    /\ UNCHANGED constructed
    /\ UNCHANGED outsideLru

\* insert(const_iterator hint, value_type const& value), and likewise
\* emplace_hint and try_emplace with a position: the hint is handed to
\* internal_insert / internal_try_emplace as the place of the new node.
InsertHint(hint, k) ==
    /\ Alive
    /\ hint \in NodeNames(items) \cup {End}
    /\ Becomes(internal_insert(Cache, hint, <<k, TestValue(k)>>))
    /\ result' = <<"hint", hint>>
    /\ run' = <<>> /\ moved' = FALSE
    /\ UNCHANGED constructed
    /\ UNCHANGED outsideLru

\* size_type erase(key_type const& key)
erase(c, key) ==
    IF key \notin DOMAIN c.map THEN c
    ELSE LET i == IndexOf(c.items, c.map[key])
         IN [c EXCEPT !.items = SubSeq(@, 1, i - 1)
                                 \o SubSeq(@, i + 1, Len(@)),
                      !.map = MapErase(@, key)]

Erase(k) ==
    /\ Alive
    /\ Becomes(erase(Cache, k))
    /\ result' = <<>>
    /\ run' = <<>> /\ moved' = FALSE
    /\ UNCHANGED constructed
    /\ UNCHANGED outsideLru

\* void clear() noexcept
clear(c) == [c EXCEPT !.map = EmptyMap, !.items = <<>>]

Clear ==
    /\ Alive
    /\ Becomes(clear(Cache))
    /\ result' = <<>>
    /\ run' = <<>> /\ moved' = FALSE
    /\ UNCHANGED constructed
    /\ UNCHANGED outsideLru

\* lru_cache(lru_cache const& other): capacity{other.capacity},
\* items{other.items}, map{other.map}, then build_map().  The list is
\* copied node by node into the new object.  The map is copied entry by
\* entry: its keys are std::reference_wrapper<const Key>, so each copied
\* entry still refers to the key inside a node of `other`; build_map()
\* then assigns map[it->first] = it, which replaces the iterator of an
\* entry whose key compares equal and leaves its key reference alone.
\* operator=(lru_cache const& other) does the same with items.clear(),
\* items.insert_range, map = other.map, build_map().
copy_of(other) ==
    build_map([capacity |-> other.capacity, items |-> other.items,
               map |-> other.map, ub |-> FALSE])

\* The key references of the copy's map: those copied from other.map
\* designate other's nodes, those build_map() added are the copy's own.
copy_key_refs(other) ==
    [k \in DOMAIN copy_of(other).map |->
        IF k \in DOMAIN other.map THEN other.map[k] ELSE OwnKey]

CopyConstruct ==
    /\ Alive /\ ~copied
    /\ copied' = TRUE
    /\ copyCapacity' = copy_of(Cache).capacity
    /\ copyItems' = copy_of(Cache).items
    /\ copyMap' = copy_of(Cache).map
    /\ copyKeyRefs' = copy_key_refs(Cache)
    /\ result' = <<>> /\ run' = <<>> /\ moved' = FALSE
    /\ UNCHANGED <<capacity, items, map, undefined, constructed,
                   copyUndefined>>
    /\ UNCHANGED outsideLru

CopyAssign ==
    /\ Alive /\ copied /\ ~copyUndefined
    /\ copyCapacity' = copy_of(Cache).capacity
    /\ copyItems' = copy_of(Cache).items
    /\ copyMap' = copy_of(Cache).map
    /\ copyKeyRefs' = copy_key_refs(Cache)
    /\ result' = <<"assigned">> /\ run' = <<>> /\ moved' = FALSE
    /\ UNCHANGED <<capacity, items, map, undefined, constructed,
                   copied, copyUndefined>>
    /\ UNCHANGED outsideLru

\* peek(k) on the copy.  map.find(k) compares k with the keys of the
\* map's entries through their references; where the reference designates
\* a destroyed node the read is undefined and the lookup may find the
\* entry or miss it.
CopyPeek(k) ==
    /\ copied /\ ~copyUndefined
    /\ IF k \in DOMAIN copyMap /\ copyKeyRefs[k] = FreedKey
       THEN /\ copyUndefined' = TRUE
            /\ result' \in {<<"copy_peek", copyMap[k]>>,
                             <<"copy_peek", End>>}
       ELSE /\ copyUndefined' = FALSE
            /\ result' = <<"copy_peek",
                           IF k \in DOMAIN copyMap THEN copyMap[k] ELSE End>>
    /\ run' = <<>> /\ moved' = FALSE
    /\ UNCHANGED <<capacity, items, map, undefined, constructed,
                   copied, copyCapacity, copyItems, copyMap, copyKeyRefs>>
    /\ UNCHANGED outsideLru

LruNext ==
    \/ \E cap \in Capacities : ConstructCapacity(cap)
    \/ \E s \in Contents, cap \in Capacities : ConstructList(s, cap)
    \/ \E s \in Contents, cap \in Capacities, sized \in BOOLEAN :
          ConstructIterators(s, cap, sized)
    \/ \E k \in Keys : Insert(k)
    \/ \E s \in Contents, sized \in BOOLEAN : InsertRange(s, sized)
    \/ \E k \in Keys : Touch(k)

LruSpec == Init /\ [][LruNext]_vars

\* The single-call operations of a cache: construction from a capacity or
\* from a list, insert with and without a hint (any iterator of the cache,
\* end() included), touch, peek, resize.
LruOpsNext ==
    \/ \E cap \in Capacities : ConstructCapacity(cap)
    \/ \E s \in Contents, cap \in Capacities : ConstructList(s, cap)
    \/ \E k \in Keys : Insert(k)
    \/ \E hint \in NodeNames(items) \cup {End}, k \in Keys :
          InsertHint(hint, k)
    \/ \E k \in Keys : Touch(k)
    \/ \E k \in Keys : Peek(k)
    \/ \E n \in Capacities : Resize(n)

LruOpsSpec == Init /\ [][LruOpsNext]_vars

\* A cache built by inserts, copied by construction and by assignment,
\* with further operations on the first cache and lookups in the copy.
LruCopyNext ==
    \/ \E cap \in Capacities : ConstructCapacity(cap)
    \/ \E k \in Keys : Insert(k)
    \/ \E k \in Keys : Touch(k)
    \/ \E k \in Keys : Erase(k)
    \/ Clear
    \/ CopyConstruct
    \/ CopyAssign
    \/ \E k \in Keys : CopyPeek(k)

LruCopySpec == Init /\ [][LruCopyNext]_vars

-----------------------------------------------------------------------------
\* make_substitutor (src/wchar-tr.cc)
\*
\* A wide string is a sequence of characters; a character is a
\* one-letter string.

\* Bound: the strings handed to make_substitutor have at most MaxWord
\* characters, besides the strings of the tests.
MaxWord == 2

Chars == {"e", "h", "l", "o"}
NoChar == ""

RECURSIVE WordsUpTo(_)
WordsUpTo(n) ==
    IF n = 0 THEN {<<>>}
    ELSE LET shorter == WordsUpTo(n - 1)
         IN shorter \cup {Append(w, c) : w \in shorter, c \in Chars}

\* L"hello", L"ehlo", L"ipza" of the tests bad_args and english
Hello == <<"h", "e", "l", "l", "o">>
TestWords == {Hello, <<"e", "h", "l", "o">>, <<"i", "p", "z", "a">>}
Words == WordsUpTo(MaxWord) \cup TestWords

\* std::views::zip(from, to) | std::ranges::to<std::map>(): the pairs are
\* inserted in order, and an insert of a key already there does nothing,
\* so a repeated character of `from` keeps its first partner.
ZipToMap(f, t) ==
    [c \in {f[i] : i \in DOMAIN f} |->
        t[CHOOSE i \in DOMAIN f :
              f[i] = c /\ \A j \in DOMAIN f : f[j] = c => i <= j]]

\* make_substitutor(from, to)
make_substitutor(f, t) ==
    IF Len(f) # Len(t)
    THEN [thrown |-> "invalid_argument", map |-> <<>>]
    ELSE [thrown |-> "none", map |-> ZipToMap(f, t)]

MakeSubstitutor(f, t) ==
    /\ from' = f /\ to' = t
    /\ thrown' = make_substitutor(f, t).thrown
    /\ substitutor' = make_substitutor(f, t).map
    /\ substituted' = NoChar
    /\ UNCHANGED outsideTr

\* The returned function object applied to c:
\* it == map.end() ? c : it->second
Substitute(c) ==
    /\ thrown = "none"
    /\ substituted' = (IF c \in DOMAIN substitutor THEN substitutor[c] ELSE c)
    /\ UNCHANGED <<from, to, thrown, substitutor>>
    /\ UNCHANGED outsideTr

TrNext ==
    \/ \E f \in Words, t \in Words : MakeSubstitutor(f, t)
    \/ \E c \in Chars : Substitute(c)

TrSpec == Init /\ [][TrNext]_vars

-----------------------------------------------------------------------------
\* rolling_mean<double> (src/rolling-mean.cpp)
\*
\* A double is a record [fp, num, den]: fp is "finite", "nan" or "inf", and
\* a finite one is the fraction num/den in lowest terms with den > 0.  The
\* rounding of double arithmetic is not modelled.  A std::optional<double>
\* is a sequence: <<>> is the empty optional, <<d>> holds d.

\* Bounds: the window has at most MaxSize entries and at most MaxPush
\* values are pushed.
MaxSize == 3
MaxPush == 4

Finite(n) == [fp |-> "finite", num |-> n, den |-> 1]
NaN == [fp |-> "nan", num |-> 0, den |-> 1]
Infinity == [fp |-> "inf", num |-> 1, den |-> 1]
Nullopt == <<>>

\* The values the client pushes
PushedValues == {Nullopt, <<Finite(1)>>, <<Finite(2)>>, <<NaN>>, <<Infinity>>}

RECURSIVE Gcd(_, _)
Gcd(x, y) == IF y = 0 THEN x ELSE Gcd(y, x % y)

\* The fraction n/d (d > 0) in lowest terms
Fraction(n, d) ==
    LET g == Gcd(IF n < 0 THEN 0 - n ELSE n, d)
    IN [fp |-> "finite", num |-> n \div g, den |-> d \div g]

\* x - y and x / n (n a positive integer) on finite doubles
Minus(x, y) == Fraction(x.num * y.den - y.num * x.den, x.den * y.den)
DividedBy(x, n) == Fraction(x.num, x.den * n)
Plus(x, y) == Fraction(x.num * y.den + y.num * x.den, x.den * y.den)

\* is_valid(std::floating_point auto const& v): std::isfinite(v)
is_valid_double(v) == v.fp = "finite"

\* is_valid(std::optional<T> const& v): v and is_valid(*v)
is_valid(v) == v # Nullopt /\ is_valid_double(v[1])

\* The rolling_mean object of the state
RollingMean ==
    [content |-> content, threshold |-> threshold, mean |-> mean,
     valid_count |-> valid_count]

\* rolling_mean(size, threshold): the members as initialised, and the
\* exception the body throws, if any.
rolling_mean(size, thr) ==
    [content |-> [i \in 1..size |-> Nullopt],
     threshold |-> (IF thr # 0 THEN thr ELSE (size + 1) \div 2),
     mean |-> Finite(0),
     valid_count |-> 0,
     thrown |-> (IF size = 0 \/ thr > size THEN "invalid_argument"
                 ELSE "none")]

\* value()
value(m) ==
    IF m.valid_count < m.threshold THEN Nullopt ELSE <<m.mean>>

\* Faulty variant: the entry leaving the window is never discounted.
PushBackKeepingCount(m, v) ==
    LET count == IF is_valid(v) THEN m.valid_count + 1 ELSE m.valid_count
    IN [m EXCEPT
          !.content = Append(Tail(m.content), v),
          !.mean = IF is_valid(v)
                   THEN Plus(m.mean, DividedBy(Minus(v[1], m.mean), count))
                   ELSE m.mean,
          !.valid_count = count]

\* push_back(value)
push_back(m, v) ==
    LET old == Head(m.content)
        \* is_valid(old) && --valid_count
        count1 == IF is_valid(old) THEN m.valid_count - 1 ELSE m.valid_count
        mean1 == IF is_valid(old) /\ count1 # 0
                 THEN Minus(m.mean, DividedBy(Minus(old[1], m.mean), count1))
                 ELSE m.mean
        \* is_valid(value): mean += (*value - mean) / ++valid_count
        count2 == IF is_valid(v) THEN count1 + 1 ELSE count1
        mean2 == IF is_valid(v)
                 THEN Plus(mean1, DividedBy(Minus(v[1], mean1), count2))
                 ELSE mean1
    IN [m EXCEPT
          !.content = Append(Tail(m.content), v),
          !.mean = mean2,
          !.valid_count = count2]

RmBecomes(m) ==
    /\ content' = m.content
    /\ threshold' = m.threshold
    /\ mean' = m.mean
    /\ valid_count' = m.valid_count

\* A constructor that throws leaves no object.
Construct(size, thr) ==
    /\ rmThrown = "no object"
    /\ LET m == rolling_mean(size, thr)
       IN /\ rmThrown' = m.thrown
          /\ IF m.thrown = "none"
             THEN RmBecomes(m)
             ELSE UNCHANGED <<content, threshold, mean, valid_count>>
    /\ UNCHANGED <<pushed, returned>>
    /\ UNCHANGED outsideRm

PushBack(v) ==
    /\ rmThrown = "none"
    /\ Len(pushed) < MaxPush
    /\ RmBecomes(push_back(RollingMean, v))
    /\ pushed' = Append(pushed, v)
    /\ returned' = [called |-> FALSE, value |-> Nullopt]
    /\ UNCHANGED rmThrown
    /\ UNCHANGED outsideRm

Value ==
    /\ rmThrown = "none"
    /\ returned' = [called |-> TRUE, value |-> value(RollingMean)]
    /\ UNCHANGED <<content, threshold, mean, valid_count, rmThrown, pushed>>
    /\ UNCHANGED outsideRm

RmNext ==
    \/ \E size \in 0..MaxSize, thr \in 0..(MaxSize + 1) : Construct(size, thr)
    \/ \E v \in PushedValues : PushBack(v)
    \/ Value

RmSpec == Init /\ [][RmNext]_vars

-----------------------------------------------------------------------------
\* codecvt::to_utf16_iterator and codecvt::to_utf8_iterator
\* (src/codecvt.cpp)
\*
\* A char32_t is its number.  An iterator is a record
\* [pos, length, remaining, current].

\* Bound: the strings converted have at most MaxText characters.
MaxText == 2

\* 'a', the copyright sign, U+24B62 and U+1F44B of the tests.
CodePoints == {97, 169, 150370, 128075}

RECURSIVE TextsUpTo(_)
TextsUpTo(n) ==
    IF n = 0 THEN {<<>>}
    ELSE LET shorter == TextsUpTo(n - 1)
         IN shorter \cup {Append(w, c) : w \in shorter, c \in CodePoints}

\* magic values for length and remaining
first_unit == 0
last_unit == -1

\* x | y on non-negative integers
RECURSIVE BitOr(_, _)
BitOr(x, y) ==
    IF x = 0 THEN y
    ELSE IF y = 0 THEN x
    ELSE (IF x % 2 = 1 \/ y % 2 = 1 THEN 1 ELSE 0)
           + 2 * BitOr(x \div 2, y \div 2)

\* explicit to_utf16_iterator(Input pos) / to_utf8_iterator(Input pos)
Iterator(pos) ==
    [pos |-> pos, length |-> first_unit, remaining |-> first_unit,
     current |-> 0]

\* compare_key(), the same in both classes
compare_key(it) ==
    <<it.pos, IF it.remaining = it.length THEN 0 ELSE it.remaining>>

\* operator==
Equal(x, y) == compare_key(x) = compare_key(y)

\* to_utf16_iterator::operator*: the iterator with its mutable members as
\* the call leaves them; `current` is the unit returned.
Deref16(t, it) ==
    IF it.current # 0 THEN it
    ELSE LET c == t[it.pos] IN
      IF c <= 65535
      THEN [it EXCEPT !.length = 1, !.remaining = 1,
                      !.current = IF 55296 <= c /\ c <= 57343 THEN 65533
                                  ELSE c]
      ELSE IF c > 1114111
      THEN [it EXCEPT !.length = 1, !.remaining = 1, !.current = 65533]
      ELSE LET length == IF it.length <= 0 THEN 2 ELSE it.length
               remaining == IF it.length <= 0
                            THEN (IF it.remaining = first_unit THEN 2 ELSE 1)
                            ELSE it.remaining
               d == c - 65536
           IN [it EXCEPT
                 !.length = length,
                 !.remaining = remaining,
                 !.current = IF remaining = 2
                             THEN BitOr((d \div 1024) % 65536, 55296)
                             ELSE BitOr((d % 1024) % 65536, 56320)]

\* to_utf16_iterator::operator++
Inc16(t, it) ==
    LET a == IF it.length = first_unit THEN Deref16(t, it) ELSE it
    IN IF a.length = last_unit \/ a.remaining - 1 = 0
       THEN Iterator(a.pos + 1)
       ELSE [a EXCEPT !.remaining = a.remaining - 1, !.current = 0]

\* to_utf16_iterator::operator--
Dec16(t, it) ==
    LET a == IF it.length = last_unit THEN Deref16(t, it) ELSE it
    IN IF a.length = first_unit \/ a.remaining = a.length
       THEN [pos |-> a.pos - 1, length |-> last_unit,
             remaining |-> last_unit, current |-> 0]
       ELSE [a EXCEPT !.remaining = a.remaining + 1, !.current = 0]

\* The loop of to_utf8_iterator::operator* that computes the length:
\* for (ch = c; ch & mask; ch >>= 6, mask >>= 1) ++length;
\* with mask = ~0x3Fu >> i, the bits 6-i .. 31-i.
RECURSIVE Utf8Length(_, _, _)
Utf8Length(ch, i, length) ==
    IF (ch \div 2^(6 - i)) % 2^26 # 0
    THEN Utf8Length(ch \div 64, i + 1, length + 1)
    ELSE length

\* to_utf8_iterator::operator*
Deref8(t, it) ==
    IF it.current # 0 THEN it
    ELSE LET c0 == t[it.pos] IN
      IF c0 <= 127
      THEN [it EXCEPT !.length = 1, !.remaining = 1, !.current = c0]
      ELSE LET c == IF 55296 <= c0 /\ c0 <= 57343 THEN 65533 ELSE c0
               length == IF it.length <= 0 THEN Utf8Length(c, 0, 1)
                         ELSE it.length
               remaining == IF it.length <= 0
                            THEN (IF it.length = last_unit THEN 1 ELSE length)
                            ELSE it.remaining
               shift == remaining - 1
           IN [it EXCEPT
                 !.length = length,
                 !.remaining = remaining,
                 !.current =
                    IF remaining = length
                    THEN BitOr(c \div 2^(6 * shift),
                               255 - (127 \div 2^shift)) % 256
                    ELSE BitOr((c \div 2^(6 * shift)) % 64, 128)]

\* to_utf8_iterator::operator++
Inc8(t, it) ==
    LET a == IF it.length = 0 THEN Deref8(t, it) ELSE it
    IN IF a.remaining - 1 = 0
       THEN [pos |-> a.pos + 1, length |-> 0, remaining |-> 0, current |-> 0]
       ELSE [a EXCEPT !.remaining = a.remaining - 1, !.current = 0]

\* to_utf8_iterator::operator--
Dec8(t, it) ==
    LET a == IF it.length = last_unit THEN Deref8(t, it) ELSE it
    IN IF a.length = first_unit \/ a.remaining = a.length
       THEN [pos |-> a.pos - 1, length |-> last_unit,
             remaining |-> last_unit, current |-> 0]
       ELSE [a EXCEPT !.remaining = a.remaining + 1, !.current = 0]

\* The number of code units operator* yields for the character c.
UnitCount(e, c) ==
    IF e = "utf16" THEN (IF c <= 65535 \/ c > 1114111 THEN 1 ELSE 2)
    ELSE IF c <= 127 THEN 1
    ELSE Utf8Length(IF 55296 <= c /\ c <= 57343 THEN 65533 ELSE c, 0, 1)

\* The number of code units of the first n characters of t.
RECURSIVE UnitsBefore(_, _, _)
UnitsBefore(e, t, n) ==
    IF n = 0 THEN 0 ELSE UnitsBefore(e, t, n - 1) + UnitCount(e, t[n])

\* Two iterators of class e are constructed on positions of the string s:
\* to_utf16_iterator{s.begin() + p - 1}, ...
CvtStart(e, s, p1, p2) ==
    /\ encoding = "none"
    /\ encoding' = e
    /\ text' = s
    /\ iter' = <<Iterator(p1), Iterator(p2)>>
    /\ unit' = <<UnitsBefore(e, s, p1 - 1), UnitsBefore(e, s, p2 - 1)>>
    /\ UNCHANGED cvtUndefined
    /\ UNCHANGED outsideCvt

\* An operation of the client on iterator i, which the client applies
\* only where the designated unit allows it.  `reads` tells whether the
\* operation evaluates *pos; reading or moving pos outside the text is
\* undefined.
CvtOperation(i, reads, next) ==
    /\ encoding # "none"
    /\ ~cvtUndefined
    /\ IF (reads /\ iter[i].pos \notin DOMAIN text)
          \/ next.pos \notin 1..(Len(text) + 1)
       THEN cvtUndefined' = TRUE /\ UNCHANGED iter
       ELSE iter' = [iter EXCEPT ![i] = next] /\ UNCHANGED cvtUndefined
    /\ UNCHANGED <<encoding, text>>
    /\ UNCHANGED outsideCvt

\* *i
Dereference(i) ==
    /\ i \in DOMAIN iter
    /\ unit[i] < UnitsBefore(encoding, text, Len(text))
    /\ CvtOperation(i, iter[i].current = 0,
                    IF iter[i].pos \notin DOMAIN text THEN iter[i]
                    ELSE IF encoding = "utf16" THEN Deref16(text, iter[i])
                    ELSE Deref8(text, iter[i]))
    /\ UNCHANGED unit

\* ++i
Increment(i) ==
    /\ i \in DOMAIN iter
    /\ unit[i] < UnitsBefore(encoding, text, Len(text))
    /\ CvtOperation(i, iter[i].length = first_unit,
                    IF iter[i].pos \notin DOMAIN text THEN iter[i]
                    ELSE IF encoding = "utf16" THEN Inc16(text, iter[i])
                    ELSE Inc8(text, iter[i]))
    /\ unit' = [unit EXCEPT ![i] = @ + 1]

\* --i
Decrement(i) ==
    /\ i \in DOMAIN iter
    /\ unit[i] > 0
    /\ CvtOperation(i, iter[i].length = last_unit,
                    IF iter[i].pos \notin DOMAIN text
                    THEN [iter[i] EXCEPT !.pos = @ - 1,
                                         !.length = last_unit,
                                         !.remaining = last_unit]
                    ELSE IF encoding = "utf16" THEN Dec16(text, iter[i])
                    ELSE Dec8(text, iter[i]))
    /\ unit' = [unit EXCEPT ![i] = @ - 1]

CvtNext ==
    \/ \E e \in {"utf16", "utf8"}, s \in TextsUpTo(MaxText) :
         \E p1, p2 \in 1..(Len(s) + 1) : CvtStart(e, s, p1, p2)
    \/ \E i \in 1..2 : Dereference(i)
    \/ \E i \in 1..2 : Increment(i)
    \/ \E i \in 1..2 : Decrement(i)

CvtSpec == Init /\ [][CvtNext]_vars

-----------------------------------------------------------------------------
\* Properties

\* A call of get_read_buffer has returned and the consumer is between calls.
ReadReturned == cpc = "idle" /\ nReads > 0

\* C1 (I1, partition): in every reachable state, the middle of
\* set_write_complete and of get_read_buffer included, readbuffer, available
\* and writebuffer are three distinct slots covering buffer[0..2].
I1_Partition ==
    /\ {readbuffer, available, writebuffer} = Buffers
    /\ readbuffer # available /\ available # writebuffer
    /\ readbuffer # writebuffer

\* Both threads are in the middle of a call and the roles have moved.
I1_Witness ==
    /\ ppc = "store" /\ cpc = "lock"
    /\ readbuffer # 0 /\ writebuffer # 1
    /\ I1_Partition

\* C2 (mutual exclusion): from the return of a slot by get_read_buffer until
\* the next call begins, that slot is neither writebuffer nor the pointer the
\* producer holds from get_write_buffer, however often it publishes.
MutualExclusion ==
    held # nullptr => (writebuffer # held /\ wret # held)

\* The consumer holds the first snapshot while the producer has published
\* three more times and holds a write pointer again.
MutualExclusion_Witness ==
    /\ held # nullptr /\ deliveries = <<1>> /\ pubDone = 4
    /\ wret # nullptr /\ wret # held

\* C3 as stated (I2 in every state, also between the two steps of
\* set_write_complete): a non-null next_read_buf differs from writebuffer.
I2_EveryState ==
    next_read_buf # nullptr => next_read_buf # writebuffer

\* Where I2 does hold: outside the window between the exchange and the
\* store of set_write_complete, a non-null next_read_buf differs from
\* writebuffer.
I2_OutsidePublishWindow ==
    (ppc # "store" /\ next_read_buf # nullptr)
        => next_read_buf # writebuffer

\* Such a state: the marker has just been stored while the consumer is in
\* mid-call.
I2_Witness ==
    /\ ppc = "notify" /\ cpc = "swap"
    /\ next_read_buf # nullptr /\ next_read_buf # writebuffer
    /\ pubNo >= 2

\* C4 (no duplicate delivery): no publish is delivered by more than one
\* call of get_read_buffer.
NoDuplicateDelivery ==
    \A i, j \in DOMAIN deliveries :
        i # j => deliveries[i] # deliveries[j]

\* C5 as stated: a call that returned "no data", with no producer step
\* since it began, left the four registers as they were when it began.
TimedOutUnchanged ==
    (ReadReturned /\ ret = nullptr /\ ~pstep)
        => /\ readbuffer = r0 /\ available = a0
           /\ writebuffer = w0 /\ next_read_buf = n0

\* C5 amended: such a call left writebuffer as it was, but it exchanged
\* readbuffer with available and left next_read_buf null.
TimedOutSwapped ==
    (ReadReturned /\ ret = nullptr /\ ~pstep)
        => /\ readbuffer = a0 /\ available = r0
           /\ writebuffer = w0 /\ next_read_buf = nullptr

\* A second call in a row returned "no data" after a publish had taken
\* place, and the consumer owns another slot than when that call began.
TimedOut_Witness ==
    /\ ReadReturned /\ ret = nullptr /\ ~pstep
    /\ nReads = 2 /\ pubDone >= 1
    /\ readbuffer = a0 /\ readbuffer # r0

\* C6 (no data only when nothing is new): a call that began after a publish
\* had returned, with no slot returned since that publish, returns a slot.
NoDataOnlyWhenNothingNew ==
    (ReadReturned /\ fresh0) => ret # nullptr

\* C7 (freshness): a returned slot holds a snapshot at least as new as
\* every publish that had returned before the call began.
Freshness ==
    (ReadReturned /\ ret # nullptr) => slotVer[ret] >= done0

\* A read returned the third snapshot after the first: the second was
\* skipped, and two publishes had returned before that call began.
Freshness_Witness ==
    /\ ReadReturned /\ ret # nullptr
    /\ deliveries = <<1, 3>> /\ done0 >= 2 /\ slotVer[ret] = 3

\* C8: as long as set_write_complete has never been called, every call of
\* get_read_buffer that returns, returns "no data".
NoPublishNoData ==
    (ReadReturned /\ pubNo = 0) => ret = nullptr

\* Two reads, the second with a positive timeout, returned "no data" after
\* a get_write_buffer and with no publish at all.
NoPublishNoData_Witness ==
    /\ ReadReturned /\ pubNo = 0 /\ nReads = 2 /\ tmo = "finite"
    /\ wret # nullptr /\ ret = nullptr

\* C9: in a run without overlapping calls, a read that began with a publish
\* since the last successful read returns the slot get_write_buffer returned
\* just before the most recent publish.
SequentialReadGetsLastWritten ==
    (seq /\ ReadReturned /\ ~pstep /\ fresh0 /\ pubW # nullptr)
        => ret = pubW

\* Sequential run: a failed read, then publishes, then a read that returns
\* the slot of the last of them.
SequentialRead_Witness ==
    /\ seq /\ ReadReturned /\ ~pstep /\ fresh0 /\ pubW # nullptr
    /\ nReads = 2 /\ Len(deliveries) = 1 /\ pubDone >= 2 /\ ret = pubW

\* C10 (I3, no queueing): a read that begins after two publishes returned
\* with no read call between them, the producer being idle meanwhile,
\* returns the slot of the second publish; the read after it, with still no
\* producer step, returns "no data".
NoQueueing ==
    /\ (ReadReturned /\ q0 = 2 /\ ~pstep /\ ppc = "idle")
           => /\ ret # nullptr /\ ret = written
              /\ slotVer[ret] = pubNo
    /\ (ReadReturned /\ dq0 /\ ~pstep) => ret = nullptr

\* The second of two reads after two quiet publishes returned "no data".
NoQueueing_Witness ==
    /\ ReadReturned /\ dq0 /\ ~pstep /\ nReads = 2
    /\ ret = nullptr /\ deliveries = <<2>>

\* C11 (timing): a call during which a publish returned before the call's
\* deadline had passed returns a slot, not "no data".
PublishBeforeDeadlineDelivered ==
    (ReadReturned /\ pubInTime) => ret # nullptr

\* C12 (no lost wake-up): whenever the consumer is blocked in wait_until
\* while the marker of a publish that has returned is pending, the
\* notification of that publish has reached it.
NoLostWakeup ==
    (cpc = "waiting" /\ ~expired /\ ppc = "idle" /\ next_read_buf # nullptr)
        => woken

\* C13 (the producer is never delayed): whatever the consumer's state, also
\* while it holds read_queue_mutex or is blocked, the producer's next step
\* is enabled: get_write_buffer and the exchange between calls, the store
\* after the exchange, the notification after the store.
ProducerNeverBlocked ==
    /\ ppc = "idle" => ENABLED get_write_buffer
    /\ (ppc = "idle" /\ pubNo < MaxPublish) => ENABLED PubExchange
    /\ ppc = "store" => ENABLED PubStore
    /\ ppc = "notify" => ENABLED PubNotify

\* The producer is in mid-publish while the consumer holds the mutex.
ProducerNeverBlocked_Witness ==
    /\ ppc = "store" /\ locked /\ cpc = "pred"
    /\ ENABLED PubStore

\* C14 as stated: a call with a zero timeout never blocks in wait_until and
\* makes one pass of the claim check (one exchange of readbuffer with
\* available at most), whatever the producer does.
ZeroTimeoutSinglePass ==
    tmo = "zero" => (cpc # "waiting" /\ swaps <= 1)

\* C14 amended: a call with a zero timeout never blocks in wait_until, no
\* call blocks once its deadline has passed, and a zero-timeout call during
\* which the producer takes no step makes at most one exchange.
ZeroTimeoutNeverWaits ==
    /\ [](tmo = "zero" => cpc # "waiting")
    /\ [][(cpc # "waiting" /\ cpc' = "waiting") => ~expired]_vars
    /\ []((tmo = "zero" /\ ~pstep) => swaps <= 1)

\* A zero-timeout call has returned after two exchanges, a publish having
\* landed between its first check and its last.
ZeroTimeout_Witness ==
    /\ ReadReturned /\ tmo = "zero" /\ swaps = 2 /\ ret # nullptr

\* C15 (default timeout): the deadline of a call with the default timeout
\* never passes, and such a call never returns "no data" while nothing has
\* been published.
DefaultTimeoutWaits ==
    /\ (tmo = "max" /\ cpc # "idle") => ~expired
    /\ (tmo = "max" /\ pubNo = 0) => ~(ReadReturned /\ ret = nullptr)

\* C16 (only completed snapshots are visible): a slot returned by
\* get_read_buffer has been released by a set_write_complete call, and
\* while the consumer owns it, it is the consumer's readbuffer and neither
\* the producer's writebuffer nor the pointer the producer writes through.
OnlyPublishedReturned ==
    held # nullptr
        => /\ slotVer[held] > 0
           /\ held = readbuffer
           /\ held # writebuffer /\ held # wret

\* The consumer was handed the first snapshot while the producer holds the
\* pointer to the slot it is filling next.
OnlyPublished_Witness ==
    /\ held # nullptr /\ wret # nullptr /\ deliveries = <<1>>
    /\ slotVer[held] = 1 /\ pubNo = 1

\* C17 (the last snapshot is not lost): once the producer's final publish
\* has returned, a consumer that has a call left to make is eventually
\* returned the slot of that final snapshot.
LastSnapshotDelivered ==
    (pubDone = LivePublishes /\ nReads < MaxReads)
        ~> (\E i \in DOMAIN deliveries : deliveries[i] = LivePublishes)

\* The final snapshot has been returned by the consumer's last call.
LastSnapshot_Witness ==
    /\ pubDone = LivePublishes /\ ReadReturned /\ nReads = MaxReads
    /\ deliveries # <<>> /\ deliveries[Len(deliveries)] = LivePublishes
    /\ done0 = LivePublishes

\* C18 (get_write_buffer is pure): between calls of set_write_complete a
\* call of get_write_buffer is always possible; it leaves readbuffer,
\* writebuffer, available and next_read_buf as they are and returns the
\* non-null writebuffer, the same pointer as the call before it when no
\* set_write_complete came between.
GetWriteBufferPure ==
    /\ [](ppc = "idle" => ENABLED get_write_buffer)
    /\ [][get_write_buffer
            => /\ regs' = regs
               /\ wret' = writebuffer /\ wret' \in Buffers
               /\ (wret # nullptr => wret' = wret)]_vars

\* The producer holds its write pointer, after a publish, while the
\* consumer is blocked.
GetWriteBuffer_Witness ==
    /\ wret # nullptr /\ wret = writebuffer /\ pubNo >= 1
    /\ cpc = "waiting"

\* C19 (eviction order): after a constructor or a range insert was given a
\* sequence of distinct keys longer than the capacity, the cache holds
\* exactly the last `capacity` keys of that sequence, oldest first; and an
\* insert of a new key into a full cache removes the front (least recently
\* used) entry and nothing else.
EvictionOrder ==
    /\ [](run # <<>> => /\ ~undefined
                        /\ Entries(items) = LastN(run, capacity))
    /\ [][\A k \in Keys :
            (Insert(k) /\ ~contains(k) /\ Len(items) >= capacity)
            => /\ ~undefined'
               /\ Len(items') = Len(items)
               /\ SubSeq(items', 1, Len(items') - 1) = Tail(items)
               /\ items'[Len(items')].first = k]_vars

\* C20 (touch): touch(key) with the key present (contains(key)) moves that
\* entry to the most recently used end and leaves the other entries, their
\* order and all values as they were; with the key absent it changes
\* nothing.
TouchMovesToEnd ==
    [][\A k \in Keys :
         Touch(k)
         => /\ ~undefined' /\ capacity' = capacity /\ map' = map
            /\ IF contains(k)
               THEN \E i \in DOMAIN items :
                       /\ items[i].first = k
                       /\ items' = SubSeq(items, 1, i - 1)
                                    \o SubSeq(items, i + 1, Len(items))
                                    \o <<items[i]>>
               ELSE items' = items]_vars

\* A touch changed the order of a cache of two or more entries: the key
\* was present and not yet the most recently used.
TouchMovesToEnd_Witness ==
    /\ moved /\ ~undefined
    /\ Len(items) >= 2
    /\ run = <<>>

\* C21 (peek): peek(key) returns a pointer to the value stored with the
\* key, or nullptr when the key is absent, and leaves the capacity, the
\* entries, their order and the lookup map exactly as they were.
PeekChangesNothing ==
    [][\A k \in Keys :
         Peek(k)
         => /\ ~undefined'
            /\ capacity' = capacity /\ items' = items /\ map' = map
            /\ IF contains(k)
               THEN \E i \in DOMAIN items :
                       /\ items[i].first = k
                       /\ result' = <<"peek", items[i].node>>
               ELSE result' = <<"peek", End>>]_vars

\* A peek returned a pointer to the value of the oldest of two or more
\* entries, which is still the oldest.
PeekChangesNothing_Witness ==
    /\ result # <<>> /\ result[1] = "peek" /\ result[2] # End
    /\ Len(items) >= 2 /\ items[1].node = result[2]

\* C22 (resize): resize(n) leaves exactly the n most recently used
\* entries, in the same order, when the cache held more than n, removes
\* nothing otherwise, and makes max_size() n.
ResizeKeepsNewest ==
    [][\A n \in Capacities :
         Resize(n)
         => /\ ~undefined'
            /\ capacity' = n
            /\ IF n < Len(items)
               THEN /\ Len(items') = n
                    /\ \A i \in 1..n :
                          items'[i] = items[Len(items) - n + i]
               ELSE items' = items]_vars

\* A resize to a smaller capacity removed an entry and kept another.
ResizeKeepsNewest_Witness ==
    /\ result # <<>> /\ result[1] = "resize" /\ result[2] >= 1
    /\ Len(items) >= 1 /\ Len(items) = capacity

\* C24 (hints are ignored): an insert with a position hint leaves the
\* cache as the same insert without the hint does.
HintsIgnored ==
    [][\A hint \in NodeNames(items) \cup {End}, k \in Keys :
         InsertHint(hint, k)
         => LET plain == internal_insert(Cache, End, <<k, TestValue(k)>>)
            IN /\ undefined' = plain.ub
               /\ plain.ub \/ Entries(items') = Entries(plain.items)]_vars

\* C23 (a copy is independent of its source): a copy made by construction
\* or by assignment holds the capacity and the entries of its source in
\* the same order; no operation on the source changes the entries of the
\* copy; and every lookup in the copy stays well defined whatever happens
\* to the source afterwards.
CopyIndependent ==
    /\ [][(CopyConstruct \/ CopyAssign)
            => /\ copyCapacity' = capacity
               /\ Entries(copyItems') = Entries(items)]_vars
    /\ [][~(CopyConstruct \/ CopyAssign) => copyItems' = copyItems]_vars
    /\ [](~copyUndefined)

\* C27 (bad_args): make_substitutor(L"hello", L"hello") throws
\* std::invalid_argument and returns no function object.
BadArgsThrows ==
    (from = Hello /\ to = Hello /\ thrown # "no call")
        => thrown = "invalid_argument"

\* The values of the window: the last Len(content) values pushed, preceded
\* by empty optionals while fewer have been pushed.
LastPushed ==
    LET size == Len(content)
        n == Len(pushed)
    IN [i \in 1..size |->
          IF n - size + i >= 1 THEN pushed[n - size + i] ELSE Nullopt]

ValidAmong(w) == Cardinality({i \in DOMAIN w : is_valid(w[i])})

\* C25: value() returns no value exactly when fewer than threshold of the
\* last `size` pushed values are valid, the threshold being the
\* constructor's argument or, when that is 0, (size + 1) / 2; the window
\* always holds exactly `size` entries, the last ones pushed, and
\* valid_count is the number of valid entries among them.
WindowCounted ==
    rmThrown = "none" =>
        /\ Len(content) \in 1..MaxSize
        /\ content = LastPushed
        /\ valid_count = ValidAmong(content)
        /\ threshold \in 1..Len(content)
        /\ (value(RollingMean) = Nullopt) <=> (ValidAmong(LastPushed) < threshold)
        /\ returned.called =>
              (returned.value = Nullopt) <=> (ValidAmong(LastPushed) < threshold)

\* value() has returned a mean after more values than the window holds
\* were pushed, an invalid one among those in the window, and has also
\* to return nothing in such a state.
WindowCounted_Witness ==
    /\ rmThrown = "none"
    /\ Len(pushed) > Len(content)
    /\ returned.called /\ returned.value # Nullopt
    /\ ValidAmong(content) < Len(content)
    /\ is_valid(pushed[1])

\* C28: set_write_complete, with w the producer's slot just before the
\* call, first sets available to w and writebuffer to the slot available
\* held at that instant, a slot other than w, leaving the marker and the
\* condition variable alone; its next step stores w into next_read_buf;
\* only its last step notifies; none of its steps changes readbuffer.
SetWriteCompleteInOrder ==
    /\ [][(ppc = "idle" /\ ppc' # "idle")
            => /\ ppc' = "store"
               /\ written' = writebuffer
               /\ available' = writebuffer
               /\ writebuffer' = available
               /\ writebuffer' # writebuffer
               /\ UNCHANGED <<readbuffer, next_read_buf, woken>>]_vars
    /\ [][(ppc = "store" /\ ppc' # "store")
            => /\ ppc' = "notify"
               /\ next_read_buf' = written
               /\ UNCHANGED <<readbuffer, writebuffer, available, woken>>]_vars
    /\ [][(ppc = "notify" /\ ppc' # "notify")
            => /\ ppc' = "idle"
               /\ pubDone' = pubDone + 1
               /\ woken' = (woken \/ cpc = "waiting")
               /\ UNCHANGED regs]_vars
    /\ [](ppc # "idle" => written # writebuffer)

\* The marker has just been stored, before the notification, while the
\* consumer is blocked and the finished slot is still the available one.
SetWriteCompleteInOrder_Witness ==
    /\ ppc = "notify"
    /\ next_read_buf = written /\ available = written
    /\ cpc = "waiting" /\ ~woken

\* The current or last call of get_read_buffer began with the marker
\* naming the available slot, and the producer has taken no step since.
FastPathCall == nReads > 0 /\ ~pstep /\ n0 # nullptr /\ n0 = a0

\* C29 (fast path): a get_read_buffer call that begins while the marker
\* names the available slot, and during which the producer takes no step,
\* never holds read_queue_mutex, makes exactly one exchange and returns the
\* slot that was available, leaving readbuffer = the old available,
\* available = the old readbuffer, next_read_buf = nullptr and writebuffer
\* as it was.
FastPathWithoutLock ==
    /\ (FastPathCall /\ cpc # "idle")
          => (~locked /\ cpc \in {"take", "test", "swap"})
    /\ (FastPathCall /\ cpc = "idle")
          => /\ ~locked
             /\ swaps = 1
             /\ ret = a0
             /\ readbuffer = a0
             /\ available = r0
             /\ next_read_buf = nullptr
             /\ writebuffer = w0

\* Such a call has returned, after an earlier call that returned a slot.
FastPathWithoutLock_Witness ==
    /\ FastPathCall /\ cpc = "idle"
    /\ ret = a0
    /\ Len(deliveries) = 2

\* get_read_buffer returns a slot at this step.
ReturnsSlot == cpc # "idle" /\ cpc' = "idle" /\ ret' # nullptr

\* C30 as stated: every return of a slot is the step that exchanges
\* readbuffer with available and obtains the marker value taken on that
\* pass; no slot is returned on a pass without that exchange.
ReturnOnlyAfterExchange ==
    [][ReturnsSlot
         => /\ cpc = "swap"
            /\ readbuffer' = available /\ available' = readbuffer
            /\ readbuffer' = b]_vars

\* C30, amended: every return of a slot returns readbuffer, which equals
\* the non-null marker value b taken on that pass; it happens either in the
\* step that exchanges readbuffer with available and obtains b, or, with
\* no exchange on that pass, at the loop condition when b already equals
\* the readbuffer the consumer holds.
ReturnWhenMarkerIsRead ==
    [][ReturnsSlot
         => /\ ret' = readbuffer' /\ b = ret' /\ b # nullptr
            /\ \/ /\ cpc = "swap"
                  /\ readbuffer' = available /\ available' = readbuffer
               \/ /\ cpc = "test"
                  /\ b = readbuffer
                  /\ UNCHANGED regs]_vars

\* A call that took no marker on its first pass, exchanged once and then
\* returned a slot: the return was at the loop condition, after the wait.
ReturnWhenMarkerIsRead_Witness ==
    /\ ReadReturned /\ ret # nullptr
    /\ n0 = nullptr /\ swaps = 1

\* C26: two to_utf16_iterator values, and likewise two to_utf8_iterator
\* values, compare equal exactly when they designate the same output code
\* unit, whichever increments, decrements and dereferences brought them
\* there.
EqualIffSameUnit ==
    (encoding # "none" /\ ~cvtUndefined)
        => (Equal(iter[1], iter[2]) <=> unit[1] = unit[2])

\* C31 (register ownership): readbuffer changes only in the consumer's
\* exchange step and writebuffer only in the producer's; every change of
\* available is one exchange by one thread, which stores that thread's own
\* register into available and receives the former available into that
\* register, the other thread's register staying as it was.
RegisterOwnership ==
    /\ [][readbuffer' # readbuffer
            => /\ cpc = "swap" /\ ppc' = ppc
               /\ readbuffer' = available /\ available' = readbuffer]_vars
    /\ [][writebuffer' # writebuffer
            => /\ ppc = "idle" /\ ppc' = "store" /\ cpc' = cpc
               /\ writebuffer' = available /\ available' = writebuffer]_vars
    /\ [][available' # available
            => \/ /\ ppc = "idle" /\ ppc' = "store" /\ cpc' = cpc
                  /\ available' = writebuffer /\ writebuffer' = available
                  /\ readbuffer' = readbuffer
               \/ /\ cpc = "swap" /\ ppc' = ppc
                  /\ available' = readbuffer /\ readbuffer' = available
                  /\ writebuffer' = writebuffer]_vars

\* The consumer has just obtained, by its exchange, the slot the producer
\* gave up by its own exchange a moment before.
RegisterOwnership_Witness ==
    /\ ppc = "store" /\ cpc = "lock"
    /\ readbuffer = written
    /\ swaps = 1

\* C32 (spurious wake-ups): a wake-up of the blocked consumer, and an
\* evaluation of the wait predicate that finds next_read_buf null, change
\* none of the four registers and return no slot; get_read_buffer returns a
\* slot only when the marker value b it last took in that call is non-null
\* and equal to the slot returned, which is then readbuffer.
SpuriousWakeHarmless ==
    /\ [][(cpc = "waiting" /\ cpc' # "waiting")
            => /\ cpc' \in {"pred", "final"}
               /\ UNCHANGED <<regs, b, ret, deliveries>>]_vars
    /\ [][(cpc \in {"pred", "final"} /\ cpc' # cpc /\ next_read_buf = nullptr)
            => /\ UNCHANGED regs
               /\ b' = nullptr
               /\ ~ReturnsSlot
               /\ UNCHANGED deliveries]_vars
    /\ [][ReturnsSlot
            => /\ b \in Buffers
               /\ ret' = b
               /\ ret' = readbuffer']_vars

\* The wait predicate has just found no marker, in a call during which a
\* publish has completed, and the consumer is about to block again.
SpuriousWakeHarmless_Witness ==
    /\ cpc = "block" /\ ~expired
    /\ b = nullptr /\ next_read_buf = nullptr
    /\ pubInTime

\* The slot released by the most recent call of set_write_complete.
LastPublished == CHOOSE s \in Buffers : slotVer[s] = pubNo

\* The consumer has taken no step since before the most recent
\* set_write_complete began, and that call has returned.
NoReadSinceLastPublish ==
    /\ cpc = "idle" /\ ppc = "idle"
    /\ pubNo >= 1
    /\ (quiet = 2 \/ (quiet = 1 /\ seq))

\* C33 (recycling): when set_write_complete publishes slot A and is called
\* again, for slot B, with no step of get_read_buffer since before A was
\* published, the exchange of the second call gives the producer A as its
\* next writebuffer, and A is not readbuffer.
UnreadSnapshotRecycled ==
    [][(NoReadSinceLastPublish /\ ppc' = "store")
         => /\ writebuffer' = LastPublished
            /\ available' = writebuffer
            /\ writebuffer' # readbuffer']_vars

\* After a read that returned a slot, two publishes followed with no read
\* between them, and the producer has received the first one's slot back.
UnreadSnapshotRecycled_Witness ==
    /\ ppc = "store" /\ cpc = "idle"
    /\ pubNo >= 3 /\ Len(deliveries) >= 1
    /\ quiet >= 1 /\ seq
    /\ slotVer[writebuffer] = pubNo - 1
    /\ slotVer[available] = pubNo

\* C34: in every state in which neither thread is inside a call,
\* test_invariant reports no failure: {readbuffer, available, writebuffer}
\* is the set of the three buffers, and next_read_buf is null or one of
\* them, and is not writebuffer.
InvariantWhenIdle ==
    (ppc = "idle" /\ cpc = "idle")
        => /\ test_invariant
           /\ {readbuffer, available, writebuffer} = Buffers
           /\ next_read_buf \in Buffers \cup {nullptr}
           /\ next_read_buf # writebuffer

\* Both threads are idle with a marker pending, after calls of the two
\* threads that overlapped.
InvariantWhenIdle_Witness ==
    /\ ppc = "idle" /\ cpc = "idle"
    /\ ~seq /\ pubDone >= 2 /\ nReads >= 1
    /\ next_read_buf # nullptr

\* C35 as stated: whenever neither thread is inside a call and
\* next_read_buf is not null, next_read_buf names the slot in available.
IdleMarkerNamesAvailable ==
    (ppc = "idle" /\ cpc = "idle" /\ next_read_buf # nullptr)
        => next_read_buf = available

\* C35, amended: whenever neither thread is inside a call and
\* next_read_buf is not null, it names the slot in available or the slot in
\* readbuffer, never writebuffer; it names available whenever no call of
\* one thread has overlapped a call of the other.
IdleMarkerNamesAvailableOrRead ==
    (ppc = "idle" /\ cpc = "idle" /\ next_read_buf # nullptr)
        => /\ next_read_buf \in {available, readbuffer}
           /\ seq => next_read_buf = available

\* Both threads idle, the marker naming the slot the consumer's register
\* holds, after a read that returned no data.
IdleMarkerNamesAvailableOrRead_Witness ==
    /\ ppc = "idle" /\ cpc = "idle"
    /\ next_read_buf # nullptr /\ next_read_buf = readbuffer
    /\ ret = nullptr /\ deliveries = <<>>

\* C36 (monotonic delivery): the publish numbers of the snapshots returned
\* by successive calls of get_read_buffer that return a slot never
\* decrease.
MonotonicDelivery ==
    \A i, j \in DOMAIN deliveries : i < j => deliveries[i] <= deliveries[j]

=============================================================================
